---- MODULE Spec2Model ----
(***************************************************************************)
(* Model of the LEMI-424 reader (mth5/io/lemi/lemi424.py) and of the run   *)
(* segmentation loop of examples/make_mth5_from_iris_dmc_local.py.         *)
(*                                                                         *)
(* Text is a string whose characters are read with SubSeq, so that         *)
(* slicing, splitting, formatting and lexicographic sorting are computed   *)
(* and not assumed.  Real numbers are exact, in scaled integers; the scale *)
(* of each quantity is stated where it is introduced.                      *)
(***************************************************************************)
EXTENDS Integers, Sequences, FiniteSets, TLC

VARIABLES
    self,         \* reader: the LEMI424 object, [_fn, _has_data, _df]
    exists,       \* reader: the paths that name a file at the moment
    content,      \* reader: the rows each file holds
    call,         \* reader: the last call made (or file-system event)
    result,       \* reader: what the last call returned or raised
    loaded,       \* reader: history, TRUE once a read of self has succeeded
    position,     \* decoder: the packed position text handed to the parser
    hemisphere,   \* decoder: the hemisphere letter handed to the parser
    location,     \* decoder: result of lemi_position_parser, Unset before the call
    sign,         \* decoder: result of lemi_hemisphere_parser, Unset before the call
    streams,      \* segmenter: the traces of the stream, each with starttime/endtime
    start_times,  \* segmenter: sorted distinct start times (text)
    end_times,    \* segmenter: sorted distinct end times (text)
    index,        \* segmenter: enumerate() counter of the loop
    runs,         \* segmenter: the runs added to the station group so far
    pc            \* segmenter: position in the script

rdVars == <<self, exists, content, call, result, loaded>>
decVars == <<position, hemisphere, location, sign>>
segVars == <<streams, start_times, end_times, index, runs, pc>>
vars == <<rdVars, decVars, segVars>>

\* Results of calls are tagged records, so that a value, python's None, an
\* attribute that was never assigned and a raised exception are told apart.
Val(v) == [val |-> v]
Raise(e) == [err |-> e]
None == [none |-> TRUE]
Unset == [unset |-> TRUE]
IsVal(r) == DOMAIN r = {"val"}
IsErr(r) == DOMAIN r = {"err"}

(***************************************************************************)
(* Bounds                                                                  *)
(***************************************************************************)
MaxIntLen == 4      \* digits before the decimal point of a position text
MaxDec == 1         \* digits after the decimal point of a position text
MaxTraces == 3      \* traces in a stream
FirstSec == 58      \* earliest second (within the hour) of a trace boundary
NumSecs == 3        \* number of distinct seconds a trace boundary can take
MaxRows == 3        \* rows in a file
MaxSec == 1         \* latest second a row of a file is stamped with
MaxSel == 2         \* names in a caller's selection of electric channels

(***************************************************************************)
(* Text helpers                                                            *)
(***************************************************************************)
DigitChars == <<"0", "1", "2", "3", "4", "5", "6", "7", "8", "9">>

\* the i-th character of a text, 1-based
Char(s, i) == SubSeq(s, i, i)

IsDigit(c) == c \in {"0", "1", "2", "3", "4", "5", "6", "7", "8", "9"}

\* value of a digit character
DigitVal(c) ==
    CASE c = "0" -> 0 [] c = "1" -> 1 [] c = "2" -> 2 [] c = "3" -> 3 [] c = "4" -> 4
      [] c = "5" -> 5 [] c = "6" -> 6 [] c = "7" -> 7 [] c = "8" -> 8 [] c = "9" -> 9

IsDigits(s) == Len(s) > 0 /\ \A i \in 1..Len(s) : IsDigit(Char(s, i))

RECURSIVE Pow10(_)
Pow10(n) == IF n = 0 THEN 1 ELSE 10 * Pow10(n - 1)

\* int(text) for a text of digits ("" counts as 0)
RECURSIVE StrToInt(_)
StrToInt(s) ==
    IF Len(s) = 0 THEN 0
    ELSE 10 * StrToInt(SubSeq(s, 1, Len(s) - 1)) + DigitVal(Char(s, Len(s)))

\* str(n) for n >= 0
RECURSIVE IntToStr(_)
IntToStr(n) ==
    IF n < 10 THEN DigitChars[n + 1]
    ELSE IntToStr(n \div 10) \o DigitChars[(n % 10) + 1]

\* a text left-padded with zeros to at least w characters (format spec 0w)
RECURSIVE ZeroPad(_, _)
ZeroPad(s, w) == IF Len(s) >= w THEN s ELSE ZeroPad("0" \o s, w)

\* python slice s[a:b] with 0-based a, exclusive b, clipped to the text
Slice(s, a, b) == SubSeq(s, a + 1, IF b < Len(s) THEN b ELSE Len(s))

RECURSIVE StripTrailingZeros(_)
StripTrailingZeros(s) ==
    IF Len(s) > 0 /\ Char(s, Len(s)) = "0"
    THEN StripTrailingZeros(SubSeq(s, 1, Len(s) - 1))
    ELSE s

\* the texts of exactly n characters drawn from S
RECURSIVE TextsOfLen(_, _)
TextsOfLen(S, n) ==
    IF n = 0 THEN {""} ELSE {t \o c : t \in TextsOfLen(S, n - 1), c \in S}

TextsOf(S, lo, hi) == UNION {TextsOfLen(S, n) : n \in lo..hi}

\* sequences over S of length lo..hi
SeqsOf(S, lo, hi) == UNION {[1..n -> S] : n \in lo..hi}

(***************************************************************************)
(* Coordinate decoder                                                      *)
(***************************************************************************)
\* positions of the decimal points of a text
DotsOf(s) == {i \in 1..Len(s) : Char(s, i) = "."}

\* does float(s) accept the text: digits with at most one decimal point
IsFloat(s) ==
    /\ \A i \in 1..Len(s) : IsDigit(Char(s, i)) \/ Char(s, i) = "."
    /\ Cardinality(DotsOf(s)) <= 1
    /\ \E i \in 1..Len(s) : IsDigit(Char(s, i))

\* float(s) as an exact decimal: the value is m / 10^d
ToFloat(s) ==
    IF DotsOf(s) = {}
    THEN [m |-> StrToInt(s), d |-> 0]
    ELSE LET k == CHOOSE i \in DotsOf(s) : TRUE
         IN  [m |-> StrToInt(SubSeq(s, 1, k - 1) \o SubSeq(s, k + 1, Len(s))),
              d |-> Len(s) - k]

\* f"{x}" of a float, split at the point: shortest decimal text with at least
\* one fractional digit.  (For x = 0 or 1e-4 <= x < 1e16, which is all that
\* position texts with at most two decimals give; outside that range python
\* writes an exponent.)
FormatFloat(x) ==
    LET whole == x.m \div Pow10(x.d)
        frac  == StripTrailingZeros(ZeroPad(IntToStr(x.m % Pow10(x.d)), x.d))
    IN  <<IntToStr(whole), IF frac = "" THEN "0" ELSE frac>>

\* Scale of decoded locations: one unit is 1 / (60 * PosScale) degree.
PosScale == Pow10(MaxDec)

\* minutes text "MM.rest" as a float
MinutesOf(frac) ==
    LET rest == Slice(frac, 2, Len(frac))
    IN  [m |-> StrToInt(Slice(frac, 0, 2) \o rest), d |-> Len(rest)]

\* lemi_position_parser: degrees + minutes / 60, in units of 1/(60*PosScale) degree
lemi_position_parser(pos) ==
    IF ~IsFloat(pos) THEN Raise("ValueError")
    ELSE LET x == ToFloat(pos)
             txt == FormatFloat([m |-> x.m, d |-> x.d + 2])
             degrees == StrToInt(txt[1])
             minutes == MinutesOf(txt[2])
         IN  Val(degrees * 60 * PosScale + minutes.m * Pow10(MaxDec - minutes.d))

lemi_hemisphere_parser(h) == IF h \in {"S", "W"} THEN -1 ELSE 1

PosDigits == {"0", "3", "5"}

Positions ==
    {w \o f : w \in TextsOf(PosDigits, 1, MaxIntLen),
              f \in {""} \cup {"." \o g : g \in TextsOf(PosDigits, 1, MaxDec)}}
    \cup {"3500000", "", ".", "N", "35x"}

Hemispheres == {"N", "S", "E", "W", "X"}

DecInit ==
    /\ position \in Positions
    /\ hemisphere \in Hemispheres
    /\ location = Unset
    /\ sign = Unset

\* lemi_position_parser(position)
ParsePosition ==
    /\ location = Unset
    /\ location' = lemi_position_parser(position)
    /\ UNCHANGED <<position, hemisphere, sign, rdVars, segVars>>

\* lemi_hemisphere_parser(hemisphere)
ParseHemisphere ==
    /\ sign = Unset
    /\ sign' = Val(lemi_hemisphere_parser(hemisphere))
    /\ UNCHANGED <<position, hemisphere, location, rdVars, segVars>>

(***************************************************************************)
(* Run segmenter: the loop of make_mth5_from_iris_dmc_local.py             *)
(***************************************************************************)
\* Characters of a timestamp text in ASCII order, for comparing texts.
Alphabet == <<".", "0", "1", "2", "3", "4", "5", "6", "7", "8", "9", ":">>

CharCode(c) == CHOOSE i \in 1..Len(Alphabet) : Alphabet[i] = c

\* python's str ordering: a <= b
RECURSIVE TextLE(_, _)
TextLE(a, b) ==
    IF Len(a) = 0 THEN TRUE
    ELSE IF Len(b) = 0 THEN FALSE
    ELSE IF Char(a, 1) # Char(b, 1)
         THEN CharCode(Char(a, 1)) < CharCode(Char(b, 1))
         ELSE TextLE(SubSeq(a, 2, Len(a)), SubSeq(b, 2, Len(b)))

\* a sort that puts the latest text first
RECURSIVE SortedTextsDescending(_)
SortedTextsDescending(S) ==
    IF S = {} THEN <<>>
    ELSE LET m == CHOOSE x \in S : \A y \in S : TextLE(y, x)
         IN  <<m>> \o SortedTextsDescending(S \ {m})

\* sorted(list(S)) for a set of texts
RECURSIVE SortedTexts(_)
SortedTexts(S) ==
    IF S = {} THEN <<>>
    ELSE LET m == CHOOSE x \in S : \A y \in S : TextLE(x, y)
         IN  <<m>> \o SortedTexts(S \ {m})

\* A time is a whole number of seconds within the hour; isoformat() writes it
\* as MM:SS (the date and hour are the same on every trace and are left out).
isoformat(t) ==
    ZeroPad(IntToStr(t \div 60), 2) \o ":" \o ZeroPad(IntToStr(t % 60), 2)

\* UTCDateTime(text): the time an MM:SS text denotes
UTCDateTime(txt) == StrToInt(SubSeq(txt, 1, 2)) * 60 + StrToInt(SubSeq(txt, 4, 5))

\* f"{index:03}"
FormatIndex(i) == ZeroPad(IntToStr(i), 3)

\* enumerate(..., 1): the number the first pair gets
EnumerateFrom == 1

RECURSIVE SelectTraces(_, _, _)
\* Stream.slice(a, b): every trace cut to the closed interval [a, b]; traces
\* left without samples are dropped.
SelectTraces(st, a, b) ==
    IF st = <<>> THEN <<>>
    ELSE LET tr == Head(st)
             lo == IF tr.starttime > a THEN tr.starttime ELSE a
             hi == IF tr.endtime < b THEN tr.endtime ELSE b
         IN  (IF lo <= hi THEN <<[starttime |-> lo, endtime |-> hi]>> ELSE <<>>)
               \o SelectTraces(Tail(st), a, b)

Times == FirstSec..(FirstSec + NumSecs - 1)

Traces == {tr \in [starttime : Times, endtime : Times] : tr.starttime <= tr.endtime}

SegInit ==
    /\ streams \in SeqsOf(Traces, 1, MaxTraces)
    /\ start_times = <<>>
    /\ end_times = <<>>
    /\ index = 0
    /\ runs = <<>>
    /\ pc = "read"

\* lines 39-40: the distinct start and end times, each sorted on its own
SortTimes ==
    /\ pc = "read"
    /\ start_times' = SortedTexts({isoformat(streams[i].starttime) : i \in 1..Len(streams)})
    /\ end_times' = SortedTexts({isoformat(streams[i].endtime) : i \in 1..Len(streams)})
    /\ pc' = "loop"
    /\ UNCHANGED <<streams, index, runs, rdVars, decVars>>

\* zip() stops at the shorter of the two lists
ZipLen == IF Len(start_times) < Len(end_times) THEN Len(start_times) ELSE Len(end_times)

\* lines 42-49: one iteration of the loop; k counts the pairs zip() has given
AddRun ==
    /\ pc = "loop"
    /\ Len(runs) < ZipLen
    /\ LET k == Len(runs) + 1
           t0 == UTCDateTime(start_times[k])
           t1 == UTCDateTime(end_times[k])
       IN  /\ index' = EnumerateFrom + k - 1
           /\ runs' = Append(runs, [id |-> FormatIndex(index'),
                                    start |-> t0,
                                    end |-> t1,
                                    stream |-> SelectTraces(streams, t0, t1)])
    /\ UNCHANGED <<streams, start_times, end_times, pc, rdVars, decVars>>

\* line 52: the loop is over and the file is closed
CloseFile ==
    /\ pc = "loop"
    /\ Len(runs) = ZipLen
    /\ pc' = "done"
    /\ UNCHANGED <<streams, start_times, end_times, index, runs, rdVars, decVars>>

(***************************************************************************)
(* Tabular format reader: class LEMI424                                    *)
(***************************************************************************)
\* self.column_names
column_names ==
    <<"year", "month", "day", "hour", "minute", "second", "bx", "by", "bz",
      "temperature_e", "temperature_h", "e1", "e2", "e3", "e4", "battery",
      "elevation", "latitude", "lat_hemisphere", "longitude", "lon_hemisphere",
      "n_satellites", "gps_fix", "tdiff">>

\* the columns combined into the "date" index by parse_dates
DateColumns == {"year", "month", "day", "hour", "minute", "second"}

\* the columns of the parsed table
DataColumns == {column_names[i] : i \in 1..Len(column_names)} \ DateColumns

\* self.sample_rate
sample_rate == 1

\* Path(value)
Path(p) == [path |-> p]

\* int(text)
ToInt(txt) == IF IsDigits(txt) THEN Val(StrToInt(txt)) ELSE Raise("ValueError")

DaysInMonth(y, m) ==
    IF m = 2 THEN (IF (y % 4 = 0 /\ y % 100 # 0) \/ y % 400 = 0 THEN 29 ELSE 28)
    ELSE IF m \in {4, 6, 9, 11} THEN 30 ELSE 31

\* lemi_date_parser: a timestamp is the tuple <<year, month, day, hour, minute,
\* second>>, ordered lexicographically; datetime() rejects fields out of range
lemi_date_parser(year, month, day, hour, minute, second) ==
    LET f == <<ToInt(year), ToInt(month), ToInt(day), ToInt(hour), ToInt(minute),
               ToInt(second)>>
    IN  IF \E i \in 1..6 : IsErr(f[i]) THEN Raise("ValueError")
        ELSE IF \/ f[1].val \notin 1..9999
                \/ f[2].val \notin 1..12
                \/ f[3].val \notin 1..DaysInMonth(f[1].val, f[2].val)
                \/ f[4].val \notin 0..23
                \/ f[5].val \notin 0..59
                \/ f[6].val \notin 0..59
             THEN Raise("ValueError")
             ELSE Val([i \in 1..6 |-> f[i].val])

\* a <= b for timestamps
TimeLE(a, b) ==
    \/ a = b
    \/ \E i \in 1..6 : a[i] < b[i] /\ \A j \in 1..(i - 1) : a[j] = b[j]

\* the converters of pd.read_csv applied to one field of a row
ConvertField(col, raw) ==
    IF col \in {"latitude", "longitude"} THEN lemi_position_parser(raw)
    ELSE IF col \in {"lat_hemisphere", "lon_hemisphere"}
         THEN Val(lemi_hemisphere_parser(raw))
         ELSE Val(raw)

\* pd.read_csv(...): the table indexed by date, or the error of the first
\* field that does not convert.  rows is the non-empty sequence of records of
\* the file, in file order; the index is not sorted.
read_csv(rows) ==
    LET n == Len(rows)
        date == [i \in 1..n |->
                    lemi_date_parser(rows[i].year, rows[i].month, rows[i].day,
                                     rows[i].hour, rows[i].minute, rows[i].second)]
        field == [i \in 1..n |->
                     [col \in DataColumns |-> ConvertField(col, rows[i][col])]]
    IN  IF \E i \in 1..n : IsErr(date[i]) \/ \E col \in DataColumns : IsErr(field[i][col])
        THEN Raise("ValueError")
        ELSE Val([index |-> [i \in 1..n |-> date[i].val],
                  cols  |-> [col \in DataColumns |-> [i \in 1..n |-> field[i][col].val]]])

\* LEMI424(): the reader __init__ leaves when no file is given
NewReader == [_fn |-> None, _has_data |-> FALSE, _df |-> Unset]

\* a setter that assigns before it checks
fn_setter_assign_first(obj, value, ex) ==
    [obj |-> [obj EXCEPT !._fn = value],
     result |-> IF value # None /\ value.path \notin ex THEN Raise("IOError") ELSE None]

\* fn.setter: the existence check comes before the assignment
fn_setter(obj, value, ex) ==
    IF value # None /\ value.path \notin ex
    THEN [obj |-> obj, result |-> Raise("IOError")]
    ELSE [obj |-> [obj EXCEPT !._fn = value], result |-> None]

\* LEMI424.read(fn)
read(obj, fn, ex, files) ==
    LET set == IF fn # None THEN fn_setter(obj, fn, ex)
                            ELSE [obj |-> obj, result |-> None]
        o1 == set.obj
    IN  IF IsErr(set.result) THEN set
        ELSE IF o1._fn = None THEN [obj |-> o1, result |-> Raise("AttributeError")]
        ELSE IF o1._fn.path \notin ex THEN [obj |-> o1, result |-> Raise("IOError")]
        ELSE LET df == read_csv(files[o1._fn.path])
             IN  IF IsErr(df) THEN [obj |-> o1, result |-> df]
                 ELSE [obj |-> [o1 EXCEPT !._df = df.val, !._has_data = TRUE],
                       result |-> None]

RECURSIVE SortValues(_)
\* the values of a sequence of numbers in ascending order
SortValues(xs) ==
    IF xs = <<>> THEN <<>>
    ELSE LET i == CHOOSE i \in 1..Len(xs) : \A j \in 1..Len(xs) : xs[i] <= xs[j]
         IN  <<xs[i]>> \o SortValues(SubSeq(xs, 1, i - 1) \o SubSeq(xs, i + 1, Len(xs)))

\* a median that takes the upper of two middle values
Median2Upper(xs) == 2 * SortValues(xs)[Len(xs) \div 2 + 1]

\* Series.median(), doubled to stay in the integers: the middle value, or the
\* mean of the two middle values
Median2(xs) ==
    LET srt == SortValues(xs)
        n == Len(xs)
    IN  IF n % 2 = 1 THEN 2 * srt[(n + 1) \div 2]
        ELSE srt[n \div 2] + srt[n \div 2 + 1]

RECURSIVE SeqMax(_)
SeqMax(xs) ==
    IF Len(xs) = 1 THEN xs[1]
    ELSE LET m == SeqMax(Tail(xs)) IN IF xs[1] > m THEN xs[1] ELSE m

RECURSIVE SeqMin(_)
SeqMin(xs) ==
    IF Len(xs) = 1 THEN xs[1]
    ELSE LET m == SeqMin(Tail(xs)) IN IF xs[1] < m THEN xs[1] ELSE m

\* The properties: None when no data has been read.
start_unguarded(obj) ==
    IF obj._df = Unset THEN Raise("AttributeError") ELSE Val(obj._df.index[1])

start(obj) == IF obj._has_data THEN Val(obj._df.index[1]) ELSE None

end_first(obj) == IF obj._has_data THEN Val(obj._df.index[1]) ELSE None

end(obj) == IF obj._has_data THEN Val(obj._df.index[Len(obj._df.index)]) ELSE None

\* latitude and longitude: median * median of the sign.  Both medians are
\* doubled, so the value is in units of 1/(4*60*PosScale) degree.
latitude(obj) ==
    IF obj._has_data
    THEN Val(Median2(obj._df.cols["latitude"]) * Median2(obj._df.cols["lat_hemisphere"]))
    ELSE None

longitude(obj) ==
    IF obj._has_data
    THEN Val(Median2(obj._df.cols["longitude"]) * Median2(obj._df.cols["lon_hemisphere"]))
    ELSE None

\* elevation: the median, doubled (half metres)
elevation(obj) ==
    IF obj._has_data THEN Val(Median2(obj._df.cols["elevation"])) ELSE None

n_samples(obj) == IF obj._has_data THEN Val(Len(obj._df.index)) ELSE None

gps_lock(obj) == IF obj._has_data THEN Val(obj._df.cols["gps_fix"]) ELSE None

\* Station() of the metadata schema, before anything is set
Station ==
    [latitude |-> None, longitude |-> None, elevation |-> None,
     time_period |-> [start |-> None, end |-> None]]

station_metadata(obj) ==
    IF obj._has_data
    THEN [latitude |-> latitude(obj), longitude |-> longitude(obj),
          elevation |-> elevation(obj),
          time_period |-> [start |-> start(obj), end |-> end(obj)]]
    ELSE Station

\* the record r that run_metadata fills in (battery in tenths of a volt)
run_metadata_record(obj) ==
    LET r == [sample_rate |-> sample_rate, model |-> "LEMI424", manufacturer |-> "LEMI",
              voltage |-> [start |-> None, end |-> None],
              time_period |-> [start |-> None, end |-> None]]
    IN  IF obj._has_data
        THEN [r EXCEPT !.voltage = [start |-> Val(SeqMax(obj._df.cols["battery"])),
                                    end |-> Val(SeqMin(obj._df.cols["battery"]))],
                       !.time_period = [start |-> start(obj), end |-> end(obj)]]
        ELSE r

\* run_metadata: the property fills r in and ends without a return statement,
\* so the caller gets None
run_metadata(obj) == None

\* the type to_run_ts gives a component, from the first character of its name
ChannelType(comp) ==
    IF Char(comp, 1) \in {"h", "b"} THEN "magnetic"
    ELSE IF Char(comp, 1) \in {"e"} THEN "electric"
    ELSE "auxiliary"

\* the electric components put after the temperatures
ComponentsElectricLast(e_channels) ==
    <<"bx", "by", "bz">> \o <<"temperature_e", "temperature_h">> \o e_channels

\* the components to_run_ts goes through, in order
Components(e_channels) ==
    <<"bx", "by", "bz">> \o e_channels \o <<"temperature_e", "temperature_h">>

\* RunTS(array_list, station_metadata, run_metadata): the aggregate keeps the
\* ordered channel list and the two metadata records it is given
RunTS(array_list, station_md, run_md) ==
    [channels |-> array_list, station_metadata |-> station_md, run_metadata |-> run_md]

\* LEMI424.to_run_ts(e_channels=...)
to_run_ts(obj, e_channels) ==
    LET comps == Components(e_channels)
    IN  IF ~obj._has_data THEN Raise("AttributeError")
        ELSE IF \E i \in 1..Len(comps) : comps[i] \notin DataColumns
        THEN Raise("KeyError")
        ELSE Val(RunTS([i \in 1..Len(comps) |->
                           [type |-> ChannelType(comps[i]),
                            sample_rate |-> sample_rate,
                            start |-> start(obj),
                            ts |-> obj._df.cols[comps[i]],
                            component |-> comps[i]]],
                       station_metadata(obj),
                       run_metadata(obj)))

\* read_lemi424(fn, e_channels): a fresh reader, read, to_run_ts
read_lemi424(fn, e_channels, ex, files) ==
    LET r == read(NewReader, fn, ex, files)
    IN  IF IsErr(r.result) THEN r.result ELSE to_run_ts(r.obj, e_channels)

(***************************************************************************)
(* Files, and the calls made on one reader                                 *)
(***************************************************************************)
\* a GPS fix the instrument reports: packed latitude and longitude, elevation
Fixes ==
    {[latitude |-> "3530", longitude |-> "10512.5", elevation |-> 1200],
     [latitude |-> "3404.5", longitude |-> "10500", elevation |-> 1211]}

HomeFix == [latitude |-> "3530", longitude |-> "10512.5", elevation |-> 1200]

\* one record of a file, stamped 2020-06-02 18:00:ss; batt is the battery
\* reading in tenths of a volt
MkRow(ss, batt, fix, lat_h, lon_h) ==
    [year |-> "2020", month |-> "06", day |-> "02", hour |-> "18", minute |-> "00",
     second |-> ss,
     bx |-> 20100 + batt, by |-> 300 - batt, bz |-> 41000 + batt,
     temperature_e |-> 21, temperature_h |-> 22,
     e1 |-> batt, e2 |-> 2 * batt, e3 |-> 3 * batt, e4 |-> 4 * batt,
     battery |-> batt, elevation |-> fix.elevation,
     latitude |-> fix.latitude, lat_hemisphere |-> lat_h,
     longitude |-> fix.longitude, lon_hemisphere |-> lon_h,
     n_satellites |-> 9, gps_fix |-> 2, tdiff |-> 0]

SecText(n) == ZeroPad(IntToStr(n), 2)

\* the battery reading at second t: [10.0, 9.5, 9.8, 9.7, ...] volts
BatteryAt(t) == IF t = 0 THEN 100 ELSE IF t = 1 THEN 95 ELSE 100 - t

\* files whose rows are stamped in any order, with repeats
TimeFiles ==
    SeqsOf({MkRow(SecText(t), BatteryAt(t), HomeFix, "N", "W") : t \in 0..MaxSec},
           1, MaxRows)

\* a GPS reading: a fix, in the north-west or the south-east quadrant
Readings == [fix : Fixes, quadrant : {<<"N", "W">>, <<"S", "E">>}]

\* files in time order whose rows differ in GPS reading
GeoFiles ==
    {[i \in 1..Len(g) |-> MkRow(SecText(i - 1), BatteryAt(i - 1), g[i].fix,
                                g[i].quadrant[1], g[i].quadrant[2])] :
        g \in SeqsOf(Readings, 1, MaxRows)}

\* two recordings for the calls that select channels
RunFiles ==
    {<<MkRow("00", 100, HomeFix, "N", "W"), MkRow("01", 95, HomeFix, "N", "W"),
       MkRow("02", 98, HomeFix, "N", "W")>>,
     <<MkRow("07", 90, HomeFix, "S", "E")>>}

AllPaths == {"a.txt", "b.txt"}

FnValues == {None} \cup {Path(p) : p \in AllPaths}

\* the names a caller may select as electric channels
SelectableNames == {"e1", "e2", "e3", "e4", "bx"}

Selections == SeqsOf(SelectableNames, 0, MaxSel)

\* e_channels=["e1", "e2"]
DefaultSelection == <<"e1", "e2">>

DecIdle ==
    /\ position = "" /\ hemisphere = "N" /\ location = Unset /\ sign = Unset

SegIdle ==
    /\ streams = <<>> /\ start_times = <<>> /\ end_times = <<>>
    /\ index = 0 /\ runs = <<>> /\ pc = "idle"

RdIdle ==
    /\ self = NewReader /\ exists = {} /\ content = <<>>
    /\ call = [op |-> "none"] /\ result = None /\ loaded = FALSE

\* One file, a.txt, drawn from files_a; b.txt names no file.  The reader is
\* as LEMI424() leaves it (LEMI424(fn) is LEMI424() followed by read(fn)).
InitReader(files_a) ==
    /\ content \in [{"a.txt"} -> files_a]
    /\ exists = {"a.txt"}
    /\ self = NewReader
    /\ loaded = FALSE
    /\ call = [op |-> "__init__", fn |-> None]
    /\ result = None

\* self.fn = value
SetFn ==
    \E value \in FnValues :
        \E r \in {fn_setter(self, value, exists)} :
            /\ self' = r.obj
            /\ result' = r.result
            /\ call' = [op |-> "fn", value |-> value]
            /\ UNCHANGED <<exists, content, loaded, decVars, segVars>>

\* self.read(fn)
Read ==
    \E fn \in FnValues :
        \E r \in {read(self, fn, exists, content)} :
            /\ self' = r.obj
            /\ result' = r.result
            /\ loaded' = (loaded \/ ~IsErr(r.result))
            /\ call' = [op |-> "read", fn |-> fn]
            /\ UNCHANGED <<exists, content, decVars, segVars>>

CallToRunTs(e) ==
    /\ result' = to_run_ts(self, e)
    /\ call' = [op |-> "to_run_ts", e_channels |-> e]
    /\ UNCHANGED <<self, exists, content, loaded, decVars, segVars>>

CallReadLemi424(p, e) ==
    /\ result' = read_lemi424(Path(p), e, exists, content)
    /\ call' = [op |-> "read_lemi424", fn |-> Path(p), e_channels |-> e]
    /\ UNCHANGED <<self, exists, content, loaded, decVars, segVars>>

\* self.to_run_ts()
ToRunTsDefault == CallToRunTs(DefaultSelection)

\* self.to_run_ts(e_channels=e)
ToRunTs == \E e \in Selections : CallToRunTs(e)

\* read_lemi424(fn), on a reader of its own
ReadLemi424Default == \E p \in AllPaths : CallReadLemi424(p, DefaultSelection)

\* read_lemi424(fn, e_channels=e), for the selections of one or no name
ReadLemi424 ==
    \E p \in AllPaths, e \in SeqsOf(SelectableNames, 0, 1) : CallReadLemi424(p, e)

\* the file system: a file is removed
Unlink ==
    \E p \in exists :
        /\ exists' = exists \ {p}
        /\ call' = [op |-> "unlink", path |-> p]
        /\ result' = None
        /\ UNCHANGED <<self, content, loaded, decVars, segVars>>

\* the file system: a removed file is put back
Restore ==
    \E p \in (DOMAIN content) \ exists :
        /\ exists' = exists \cup {p}
        /\ call' = [op |-> "restore", path |-> p]
        /\ result' = None
        /\ UNCHANGED <<self, content, loaded, decVars, segVars>>

(***************************************************************************)
(* Specifications                                                          *)
(***************************************************************************)
\* the reader on files that differ in row order
Init == InitReader(TimeFiles) /\ DecIdle /\ SegIdle

Next == SetFn \/ Read \/ ToRunTsDefault \/ ReadLemi424Default \/ Unlink \/ Restore

Spec == Init /\ [][Next]_vars

\* the reader on files that differ in GPS readings
InitGeo == InitReader(GeoFiles) /\ DecIdle /\ SegIdle

SpecGeo == InitGeo /\ [][Next]_vars

\* the reader under every selection of channels a caller may make
InitRun == InitReader(RunFiles) /\ DecIdle /\ SegIdle

NextRun == Read \/ ToRunTs \/ ReadLemi424

SpecRun == InitRun /\ [][NextRun]_vars

\* the coordinate decoder on every position text and hemisphere letter
InitDec == DecInit /\ RdIdle /\ SegIdle

NextDec == ParsePosition \/ ParseHemisphere

SpecDec == InitDec /\ [][NextDec]_vars

\* the run segmenter on every stream of traces
InitSeg == SegInit /\ RdIdle /\ DecIdle

NextSeg == SortTimes \/ AddRun \/ CloseFile

SpecSeg == InitSeg /\ [][NextSeg]_vars
\* files that pd.read_csv rejects: a second that is no number, a second out
\* of range after a good row, a latitude that is no number after a good row
BadFiles ==
    {<<MkRow("6x", 100, HomeFix, "N", "W")>>,
     <<MkRow("00", 100, HomeFix, "N", "W"), MkRow("60", 95, HomeFix, "N", "W")>>,
     <<MkRow("00", 100, HomeFix, "N", "W"),
       MkRow("01", 95, [HomeFix EXCEPT !.latitude = "35x"], "N", "W")>>}

\* a recording that differs from every file of RunFiles
OtherFile == <<MkRow("03", 97, HomeFix, "S", "E"), MkRow("04", 96, HomeFix, "S", "E")>>

\* Two files: a.txt is a good recording, b.txt a file that does not parse or
\* another good recording.  The reader is as LEMI424() leaves it.
InitTwoFiles ==
    /\ content \in [AllPaths -> RunFiles \cup BadFiles \cup {OtherFile}]
    /\ content["a.txt"] \in RunFiles
    /\ content["b.txt"] \in BadFiles \cup {OtherFile}
    /\ exists = AllPaths
    /\ self = NewReader
    /\ loaded = FALSE
    /\ call = [op |-> "__init__", fn |-> None]
    /\ result = None

\* the reader in a sequence of reads over a good and a malformed file
InitReads == InitTwoFiles /\ DecIdle /\ SegIdle

NextReads == Read \/ Unlink \/ Restore

SpecReads == InitReads /\ [][NextReads]_vars

(***************************************************************************)
(* Properties                                                              *)
(***************************************************************************)
\* the (start, end) pairs of the traces, and those of the runs
TracePairs == {<<streams[i].starttime, streams[i].endtime>> : i \in 1..Len(streams)}

RunPairs == {<<runs[k].start, runs[k].end>> : k \in 1..Len(runs)}

\* C1: when the script is done there is exactly one run per distinct
\* (start, end) pair of the traces, and every run's interval is the pair of
\* a trace.
C1_OneRunPerDistinctPair ==
    pc = "done" => /\ Len(runs) = Cardinality(TracePairs)
                   /\ RunPairs = TracePairs

\* C2: the k-th run carries the number k as a three-character zero-padded
\* text, runs come in ascending start-time order, and two disjoint intervals
\* [t0,t1], [t2,t3] with t1 < t2 give exactly the runs "001" for [t0,t1] and
\* "002" for [t2,t3].
C2_RunsNumberedInStartOrder ==
    /\ \A k \in 1..Len(runs) :
          /\ Len(runs[k].id) = 3
          /\ IsDigits(runs[k].id)
          /\ StrToInt(runs[k].id) = k
    /\ \A j, k \in 1..Len(runs) : j < k => runs[j].start < runs[k].start
    /\ \A t0, t1, t2, t3 \in Times :
          (/\ pc = "done"
           /\ t0 <= t1 /\ t1 < t2 /\ t2 <= t3
           /\ TracePairs = {<<t0, t1>>, <<t2, t3>>})
          => /\ Len(runs) = 2
             /\ runs[1].id = "001" /\ runs[1].start = t0 /\ runs[1].end = t1
             /\ runs[2].id = "002" /\ runs[2].start = t2 /\ runs[2].end = t3

\* two disjoint intervals, one of them on two traces, have been segmented
C2_Witness ==
    /\ pc = "done"
    /\ Len(streams) = 3
    /\ Cardinality(TracePairs) = 2
    /\ \E p, q \in TracePairs : p[2] < q[1]
    /\ Len(runs) = 2
    /\ runs[2].id = "002"

\* every property of the reader
Properties(obj) ==
    <<start(obj), end(obj), latitude(obj), longitude(obj), elevation(obj),
      n_samples(obj), gps_lock(obj)>>

\* the rows of the table are in ascending time order
Ascending(df) ==
    \A i, j \in 1..Len(df.index) : i <= j => TimeLE(df.index[i], df.index[j])

\* C3 as stated: before any successful read every property is absent (None,
\* not an error); after one every property is defined and start <= end.
C3_AbsenceContract ==
    /\ ~loaded => \A i \in 1..7 : Properties(self)[i] = None
    /\ loaded => /\ \A i \in 1..7 : IsVal(Properties(self)[i])
                 /\ TimeLE(start(self).val, end(self).val)

\* C3 amended: before any successful read every property is absent; after
\* one every property is defined, start is the first and end the last time
\* stamp of the table, and start <= end when the rows are in ascending order.
C3_AbsenceContractAscending ==
    /\ ~loaded => \A i \in 1..7 : Properties(self)[i] = None
    /\ loaded => /\ \A i \in 1..7 : IsVal(Properties(self)[i])
                 /\ start(self).val = self._df.index[1]
                 /\ end(self).val = self._df.index[Len(self._df.index)]
                 /\ Ascending(self._df) => TimeLE(start(self).val, end(self).val)

\* a file of rows in ascending order, not all stamped alike, has been read
C3_Witness ==
    /\ loaded
    /\ call.op = "read"
    /\ Ascending(self._df)
    /\ start(self) # end(self)

\* the largest and the smallest value of a column
ColMax(xs) == CHOOSE m \in {xs[i] : i \in 1..Len(xs)} : \A i \in 1..Len(xs) : xs[i] <= m

ColMin(xs) == CHOOSE m \in {xs[i] : i \in 1..Len(xs)} : \A i \in 1..Len(xs) : m <= xs[i]

VoltageOK(md, obj) ==
    /\ md # None
    /\ md.voltage.start = Val(ColMax(obj._df.cols["battery"]))
    /\ md.voltage.end = Val(ColMin(obj._df.cols["battery"]))
    /\ md.sample_rate = sample_rate
    /\ md.time_period = [start |-> start(obj), end |-> end(obj)]

\* C4: after a successful read the run metadata of the reader, and that of
\* the run to_run_ts returns, give voltage start = largest and voltage end =
\* smallest battery reading, with the sample rate and the time period.
C4_RunMetadataVoltage ==
    loaded => /\ VoltageOK(run_metadata(self), self)
              /\ (call.op = "to_run_ts" /\ IsVal(result))
                    => VoltageOK(result.val.run_metadata, self)

ExpectedType(name) ==
    IF Char(name, 1) = "h" \/ Char(name, 1) = "b" THEN "magnetic"
    ELSE IF Char(name, 1) = "e" THEN "electric"
    ELSE "auxiliary"

ElectricNames == {"e1", "e2", "e3", "e4"}

\* C5: for a selection of names among e1..e4, the run's channels are bx, by,
\* bz, the selection in the order given, temperature_e, temperature_h, each
\* typed by the first letter of its name; the default selection gives
\* magnetic x3, electric x2, auxiliary x2.
C5_ChannelOrderAndTypes ==
    (/\ call.op \in {"to_run_ts", "read_lemi424"}
     /\ IsVal(result)
     /\ \A i \in 1..Len(call.e_channels) : call.e_channels[i] \in ElectricNames)
    => LET ch == result.val.channels
           e == call.e_channels
       IN  /\ Len(ch) = Len(e) + 5
           /\ ch[1].component = "bx" /\ ch[2].component = "by" /\ ch[3].component = "bz"
           /\ \A i \in 1..Len(e) : ch[3 + i].component = e[i]
           /\ ch[Len(e) + 4].component = "temperature_e"
           /\ ch[Len(e) + 5].component = "temperature_h"
           /\ \A i \in 1..Len(ch) : ch[i].type = ExpectedType(ch[i].component)
           /\ e = <<"e1", "e2">>
                => [i \in 1..7 |-> ch[i].type] =
                      <<"magnetic", "magnetic", "magnetic", "electric", "electric",
                        "auxiliary", "auxiliary">>

\* to_run_ts has returned a run for the selection e4, e1
C5_Witness ==
    /\ call.op = "to_run_ts"
    /\ call.e_channels = <<"e4", "e1">>
    /\ IsVal(result)
    /\ Len(result.val.channels) = 7

\* the path a read call reads: its argument, or the reader's fn
ReadTarget(c, obj) == IF c.fn # None THEN c.fn ELSE obj._fn

\* C6: assigning a path that names no file raises the missing-file error
\* and leaves the earlier path in place; a read whose path names no file
\* raises the missing-file error and loads nothing.
C6_MissingFile ==
    [][/\ (call'.op = "fn" /\ call'.value # None /\ call'.value.path \notin exists)
            => /\ result' = Raise("IOError")
               /\ self'._fn = self._fn
       /\ (/\ call'.op = "read"
           /\ ReadTarget(call', self) # None
           /\ ReadTarget(call', self).path \notin exists)
            => /\ result' = Raise("IOError")
               /\ self'._df = self._df
               /\ self'._has_data = self._has_data]_vars

\* read() was called after the file the reader's fn names was removed
C6_Witness ==
    /\ call.op = "read"
    /\ call.fn = None
    /\ self._fn = Path("a.txt")
    /\ "a.txt" \notin exists
    /\ result = Raise("IOError")

\* the earliest and the latest time stamp of the table
IndexMin(df) ==
    CHOOSE t \in {df.index[i] : i \in 1..Len(df.index)} :
        \A i \in 1..Len(df.index) : TimeLE(t, df.index[i])

IndexMax(df) ==
    CHOOSE t \in {df.index[i] : i \in 1..Len(df.index)} :
        \A i \in 1..Len(df.index) : TimeLE(df.index[i], t)

\* C7 as stated: after a successful read, whatever the row order, the
\* station time period is (earliest, latest) time stamp of the table.
C7_TimePeriodIsMinMax ==
    loaded => /\ station_metadata(self).time_period.start = Val(IndexMin(self._df))
              /\ station_metadata(self).time_period.end = Val(IndexMax(self._df))

\* C7 amended: the station time period is (first, last) time stamp of the
\* table, which is (earliest, latest) when the rows are in ascending order.
C7_TimePeriodIsFirstLast ==
    loaded =>
        LET tp == station_metadata(self).time_period
            idx == self._df.index
        IN  /\ tp.start = Val(idx[1])
            /\ tp.end = Val(idx[Len(idx)])
            /\ Ascending(self._df)
                 => tp.start = Val(IndexMin(self._df)) /\ tp.end = Val(IndexMax(self._df))

\* a file of three rows in ascending order with distinct stamps has been read
C7_Witness ==
    /\ loaded
    /\ call.op = "read"
    /\ Len(self._df.index) = 3
    /\ Ascending(self._df)
    /\ IndexMin(self._df) # IndexMax(self._df)

\* what the specification gives for a numeric text: degrees from the whole part of
\* raw / 100, minutes from its first two fractional digits (zero-padded) and
\* the digits after them; in units of 1/(60*PosScale) degree
PaddedDegreesMinutes(pos) ==
    LET x == ToFloat(pos)
        whole == x.m \div Pow10(x.d + 2)
        frac == x.m % Pow10(x.d + 2)
    IN  whole * 60 * PosScale + frac * Pow10(MaxDec - x.d)

\* C8: for a text that parses as a number the decoder gives
\* sign * (degrees + minutes / 60), minutes zero-padded to two digits, sign
\* -1 for S and W and +1 otherwise; "3500000" decodes to 35.0 with N and to
\* -35.0 with S.
C8_DecodeSignedDegrees ==
    (IsFloat(position) /\ location # Unset /\ sign # Unset)
    => LET s == IF hemisphere = "S" \/ hemisphere = "W" THEN -1 ELSE 1
       IN  /\ IsVal(location)
           /\ sign.val = s
           /\ sign.val * location.val = s * PaddedDegreesMinutes(position)
           /\ (position = "3500000" /\ hemisphere = "N")
                => sign.val * location.val = 35 * 60 * PosScale
           /\ (position = "3500000" /\ hemisphere = "S")
                => sign.val * location.val = -35 * 60 * PosScale

\* C9: every run returned is non-empty, its channels share start time,
\* sample rate and number of samples, and no two of them have the same
\* component name.
C9_RunInvariant ==
    (call.op \in {"to_run_ts", "read_lemi424"} /\ IsVal(result))
    => LET ch == result.val.channels
       IN  /\ Len(ch) > 0
           /\ \A i, j \in 1..Len(ch) :
                 /\ ch[i].start = ch[j].start
                 /\ ch[i].sample_rate = ch[j].sample_rate
                 /\ Len(ch[i].ts) = Len(ch[j].ts)
                 /\ i # j => ch[i].component # ch[j].component

\* the k-th smallest value of a column
KthSmallest(xs, k) ==
    CHOOSE a \in {xs[i] : i \in 1..Len(xs)} :
        /\ Cardinality({i \in 1..Len(xs) : xs[i] < a}) < k
        /\ k <= Cardinality({i \in 1..Len(xs) : xs[i] <= a})

\* twice the median of a column
TwiceMedian(xs) ==
    IF Len(xs) % 2 = 1 THEN 2 * KthSmallest(xs, (Len(xs) + 1) \div 2)
    ELSE KthSmallest(xs, Len(xs) \div 2) + KthSmallest(xs, Len(xs) \div 2 + 1)

\* the rows of a column of signs that carry the sign s
RowsWith(xs, s) == {i \in 1..Len(xs) : xs[i] = s}

\* coordinate * 4 is median * 2 times sign median * 2; the sign s of most
\* rows gives coordinate = s * median
CoordinateOK(value, coord, signs) ==
    /\ value = Val(TwiceMedian(coord) * TwiceMedian(signs))
    /\ \A s \in {-1, 1} :
          2 * Cardinality(RowsWith(signs, s)) > Len(signs)
             => value = Val(s * 2 * TwiceMedian(coord))

\* C10 as stated: latitude and longitude are median coordinate times median
\* sign, elevation is the median elevation, a majority sign s gives
\* s * median coordinate, and the coordinate is 0 only if the median is 0.
C10_MedianCoordinates ==
    loaded =>
        LET md == station_metadata(self)
            c == self._df.cols
        IN  /\ CoordinateOK(md.latitude, c["latitude"], c["lat_hemisphere"])
            /\ CoordinateOK(md.longitude, c["longitude"], c["lon_hemisphere"])
            /\ md.elevation = Val(TwiceMedian(c["elevation"]))
            /\ md.latitude = Val(0) => TwiceMedian(c["latitude"]) = 0
            /\ md.longitude = Val(0) => TwiceMedian(c["longitude"]) = 0

\* the rows of a column of signs split evenly between -1 and +1
EvenSplit(signs) ==
    Cardinality(RowsWith(signs, -1)) = Cardinality(RowsWith(signs, 1))

\* C10 amended: as stated, but the coordinate is 0 only if the median is 0
\* or the rows split evenly between the two signs.
C10_MedianCoordinatesUnlessSplit ==
    loaded =>
        LET md == station_metadata(self)
            c == self._df.cols
        IN  /\ CoordinateOK(md.latitude, c["latitude"], c["lat_hemisphere"])
            /\ CoordinateOK(md.longitude, c["longitude"], c["lon_hemisphere"])
            /\ md.elevation = Val(TwiceMedian(c["elevation"]))
            /\ md.latitude = Val(0)
                 => TwiceMedian(c["latitude"]) = 0 \/ EvenSplit(c["lat_hemisphere"])
            /\ md.longitude = Val(0)
                 => TwiceMedian(c["longitude"]) = 0 \/ EvenSplit(c["lon_hemisphere"])

\* a file of three rows, two of them in the south, with two different fixes
\* has been read
C10_Witness ==
    /\ loaded
    /\ call.op = "read"
    /\ Len(self._df.index) = 3
    /\ Cardinality(RowsWith(self._df.cols["lat_hemisphere"], -1)) = 2
    /\ Cardinality({self._df.cols["latitude"][i] : i \in 1..3}) = 2
    /\ latitude(self).val < 0

\* the read call just made failed
ReadFailed == call'.op = "read" /\ IsErr(result')

\* C11: a read that fails (missing file, or a field that does not convert)
\* leaves the has-data flag, the parsed table and every derived property as
\* they were before the call, and a loaded reader's fn is still the path of
\* the file it last read successfully.
C11_FailedReadExposesNothing ==
    [][ReadFailed =>
          /\ self'._has_data = self._has_data
          /\ self'._df = self._df
          /\ Properties(self') = Properties(self)
          /\ self._has_data =>
                /\ self'._fn = self._fn
                /\ read_csv(content[self'._fn.path]) = Val(self'._df)]_vars

\* the part of C11 that is about the data alone: a failed read leaves the
\* has-data flag, the table and the derived properties as they were
FailedReadKeepsTable ==
    [][ReadFailed =>
          /\ self'._has_data = self._has_data
          /\ self'._df = self._df
          /\ Properties(self') = Properties(self)]_vars

\* a loaded reader was given a file that exists and does not parse
C11_FailedAfterLoad ==
    /\ call.op = "read"
    /\ IsErr(result)
    /\ self._has_data
    /\ call.fn # None
    /\ call.fn.path \in exists
====
